---- MODULE Spec2Model ----
(***************************************************************************)
(* London cinema listings: the source adapters (src/scrapers), the         *)
(* aggregator (src/scripts/generate_screenings.py) and the snapshot query  *)
(* API (src/api/index.py).                                                 *)
(*                                                                         *)
(* Time is counted in whole hours.  An instant is the number of hours      *)
(* since 2025-01-01T00:00Z; a wall-clock reading is the number of hours    *)
(* since 2025-01-01T00:00 on the local calendar.  A calendar date is the   *)
(* wall-clock reading divided by 24.                                       *)
(***************************************************************************)
EXTENDS Integers, Sequences, FiniteSets, TLC

VARIABLES
    now,            \* the instant the clock shows (UTC hours)
    server_tz,      \* the zone of the machine's local clock: "UTC" or "London"
    upstream,       \* adapter key -> what that venue's site serves (the adapter under test)
    pc,             \* position of generate_screenings.main
    idx,            \* index into SCRAPERS of the adapter run next
    all_screenings, \* main: all_screenings
    stats,          \* main: stats (display name -> count)
    outcome,        \* adapter key -> what its scrape did in this run: status and list
    output,         \* main: output (serialized, sorted)
    file,           \* data/screenings.json on disk
    resp,           \* the last response of the query API
    inst,           \* adapter key -> attributes kept on the adapter instance
    calls,          \* scrape calls made on the adapter under test, with their results
    probe           \* the input/result of the pure function last applied

vars == <<now, server_tz, upstream, pc, idx, all_screenings, stats, outcome,
          output, file, resp, inst, calls, probe>>

--------------------------------------------------------------------------
(* Europe/London civil time, zoneinfo semantics (PEP 495 fold).            *)

HoursPerDay == 24

\* British Summer Time: 2025-03-30T01:00Z to 2025-10-26T01:00Z and
\* 2026-03-29T01:00Z to 2026-10-25T01:00Z (day numbers count from 2025-01-01 = 0)
BSTStart2025 == 88 * HoursPerDay + 1
BSTEnd2025 == 298 * HoursPerDay + 1
BSTStart2026 == (365 + 87) * HoursPerDay + 1
BSTEnd2026 == (365 + 297) * HoursPerDay + 1

InBST(u) ==
    \/ (BSTStart2025 <= u /\ u < BSTEnd2025)
    \/ (BSTStart2026 <= u /\ u < BSTEnd2026)

\* utcoffset of the instant u
UtcOffsetAt(u) == IF InBST(u) THEN 1 ELSE 0

\* utcoffset zoneinfo gives the wall-clock reading w with the given fold:
\* fold 0 takes the offset before a transition for a gap or repeated reading,
\* fold 1 the offset after it.
LocalOffset(w, fold) ==
    IF fold = 0 THEN (IF InBST(w - 1) THEN 1 ELSE 0)
                ELSE (IF InBST(w) THEN 1 ELSE 0)

\* A datetime value: wall-clock fields, tzinfo and fold.
Naive(w) == [wall |-> w, tz |-> "naive", fold |-> 0]
ReplaceTzLondon(dt) == [wall |-> dt.wall, tz |-> "london", fold |-> dt.fold]
Utc(u) == [wall |-> u, tz |-> "utc", fold |-> 0]

IsAware(dt) == dt.tz # "naive"

utcoffset(dt) ==
    CASE dt.tz = "utc" -> 0
      [] dt.tz = "london" -> LocalOffset(dt.wall, dt.fold)
      [] OTHER -> 0

\* The instant an aware datetime denotes.
InstantOf(dt) == dt.wall - utcoffset(dt)

\* dt.astimezone(LONDON_TZ) of an aware datetime; a datetime whose tzinfo
\* is LONDON_TZ already is returned as it is
AsLondon(dt) ==
    LET u == InstantOf(dt)
        off == UtcOffsetAt(u)
        w == u + off
    IN  IF dt.tz = "london" THEN dt
        ELSE [wall |-> w, tz |-> "london",
              fold |-> IF off = 0 /\ LocalOffset(w, 0) = 1 THEN 1 ELSE 0]

now_london(t) == AsLondon(Utc(t))

\* to_london reading a naive datetime as UTC
to_london_from_utc(dt) ==
    IF dt.tz = "naive" THEN AsLondon(Utc(dt.wall)) ELSE AsLondon(dt)

to_london(dt) ==
    IF dt.tz = "naive" THEN ReplaceTzLondon(dt) ELSE AsLondon(dt)

\* datetime.now(): the naive local time of the machine
datetime_now(t, zone) ==
    IF zone = "London" THEN Naive(AsLondon(Utc(t)).wall) ELSE Naive(t)

DateOf(dt) == dt.wall \div HoursPerDay

\* dt + timedelta(hours=h): wall-clock arithmetic, tzinfo kept, fold cleared
PlusHours(dt, h) == [wall |-> dt.wall + h, tz |-> dt.tz, fold |-> 0]

\* a < b on datetimes: two datetimes of the same tzinfo compare by their
\* wall-clock fields (fold ignored); of different tzinfo by their instants.
\* (The code never compares a naive with an aware datetime.)
DtLess(a, b) ==
    IF a.tz = b.tz THEN a.wall < b.wall ELSE InstantOf(a) < InstantOf(b)

\* dt.replace(hour=0, ...): midnight of the same calendar date
AtMidnight(dt) == [dt EXCEPT !.wall = (dt.wall \div HoursPerDay) * HoursPerDay]

\* datetime.isoformat(): the wall-clock text and the offset suffix
isoformat(dt) ==
    [text |-> dt.wall,
     suffix |-> CASE dt.tz = "naive" -> ""
                  [] utcoffset(dt) = 1 -> "+01:00"
                  [] OTHER -> "+00:00"]

\* Python's string order on two isoformat strings: the digits first, then
\* the suffix ("" is a prefix of the others, and '0' < '1').
SuffixRank(s) == CASE s = "" -> 0 [] s = "+00:00" -> 1 [] OTHER -> 2
StrLess(a, b) ==
    \/ a.text < b.text
    \/ (a.text = b.text /\ SuffixRank(a.suffix) < SuffixRank(b.suffix))

--------------------------------------------------------------------------
(* The calendar: 2025, 2026 and 2027 are 365-day years.                    *)

BaseYear == 2025
DaysPerYear == 365
DaysBefore == <<0, 31, 59, 90, 120, 151, 181, 212, 243, 273, 304, 334>>
DaysIn == <<31, 28, 31, 30, 31, 30, 31, 31, 30, 31, 30, 31>>

YearOfDay(day) == BaseYear + (day \div DaysPerYear)
DayOfYear(day) == day % DaysPerYear           \* 0-based
MonthOfDay(day) ==
    CHOOSE m \in 1..12 :
        /\ DaysBefore[m] <= DayOfYear(day)
        /\ DayOfYear(day) < DaysBefore[m] + DaysIn[m]
DayOfMonth(day) == DayOfYear(day) - DaysBefore[MonthOfDay(day)] + 1

\* date(y, m, d) as a day number
MkDay(y, m, d) == (y - BaseYear) * DaysPerYear + DaysBefore[m] + d - 1

--------------------------------------------------------------------------
(* Sequences the way the code uses lists.                                  *)

RECURSIVE FlatMap(_, _)
FlatMap(F(_), s) == IF s = <<>> THEN <<>> ELSE F(Head(s)) \o FlatMap(F, Tail(s))

Range(s) == {s[i] : i \in 1..Len(s)}

\* the first occurrence of every key, in order (the seen-set loops)
RECURSIVE DedupFrom(_, _, _)
DedupFrom(Key(_), s, seen) ==
    IF s = <<>> THEN <<>>
    ELSE IF Key(Head(s)) \in seen
         THEN DedupFrom(Key, Tail(s), seen)
         ELSE <<Head(s)>> \o DedupFrom(Key, Tail(s), seen \cup {Key(Head(s))})
DedupBy(Key(_), s) == DedupFrom(Key, s, {})

\* list.sort(key=...): a stable sort; Less is the order on the keys
\* an element stands after those less than it and after its equals that
\* came before it
StableSort(Less(_, _), s) ==
    LET Before(j, i) == Less(s[j], s[i]) \/ (~Less(s[i], s[j]) /\ j < i)
        Rank(i) == Cardinality({j \in DOMAIN s : Before(j, i)}) + 1
    IN  [k \in DOMAIN s |-> s[CHOOSE i \in DOMAIN s : Rank(i) = k]]

--------------------------------------------------------------------------
(* URLs, screenings and what a venue's site serves.                        *)

\* A URL string: absolute or not, and the text that tells it from others
\* (its last path segment).  EmptyUrl is the empty string.
Abs(seg) == [abs |-> TRUE, seg |-> seg]
Rel(seg) == [abs |-> FALSE, seg |-> seg]
EmptyUrl == Rel("")

\* base.Screening (cinema_name, format, screen, end_time, notes and
\* scraped_at play no part in what is checked here)
Screening(cinema, title, start, url) ==
    [cinema_id |-> cinema, film_title |-> title, start_time |-> start,
     booking_url |-> url]

\* Screening.id: the digest of "cinema_id:film_title:start_time.isoformat()",
\* taken as the key it is computed from
ScreeningId(s) == <<s.cinema_id, s.film_title, isoformat(s.start_time)>>

\* The adapters of SCRAPERS, by key, with the Cinema each is built on.
Adapters == {"rio", "curzon", "prince_charles", "barbican", "garden", "everyman", "vue"}

CinemaId(a) ==
    CASE a = "rio" -> "rio"
      [] a = "curzon" -> "curzon-hoxton"
      [] a = "prince_charles" -> "prince-charles-cinema"
      [] a = "barbican" -> "barbican-cinema"
      [] a = "garden" -> "garden-cinema"
      [] a = "everyman" -> "everyman-broadgate"
      [] OTHER -> "vue-islington"

\* Cinema.website: the last path segment of each is what tells it apart
Website(a) ==
    CASE a = "rio" -> Abs("riocinema.org.uk")
      [] a = "curzon" -> Abs("hoxton")
      [] a = "prince_charles" -> Abs("princecharlescinema.com")
      [] a = "barbican" -> Abs("cinema")
      [] a = "garden" -> Abs("thegardencinema.co.uk")
      [] a = "everyman" -> Abs("x11nt-everyman-broadgate")
      [] OTHER -> Abs("islington")

\* One listing as a site serves it.  Every adapter reads the fields its
\* own site has:
\*   title  the film (for Curzon the film id)
\*   when   [kind, t]: the date/time text.  kind "local": a date-time with
\*          no offset, wall-clock reading t; "utc": a date-time ending in
\*          Z, instant t; "md": a heading "<day> <month>" plus a time of
\*          day, t hours into a year; "time": a time of day, hour t;
\*          "head": a date heading alone, t hours into a year; "bad":
\*          unparseable text; "none": the field is absent
\*   url    the per-showing link (or link fragment, or showing id)
\*   alt    the film page's link (Rio)
\*   page   the business date, date page, view or film block listing it
\*   open   IsOpenForSale / isOnSale
Item(title, when, url, alt, page, open) ==
    [title |-> title, when |-> when, url |-> url, alt |-> alt, page |-> page,
     open |-> open]
When(kind, t) == [kind |-> kind, t |-> t]

\* What a scrape call does: it hands back a list or raises, and leaves the
\* adapter instance's attributes as `self`.
Returned(list, self) == [raised |-> FALSE, list |-> list, self |-> self]
Raised(self) == [raised |-> TRUE, list |-> <<>>, self |-> self]

\* The attributes an adapter instance keeps between calls, as __init__ sets
\* them: Curzon's auth_token (FALSE: None) and films_cache, Vue's
\* showings_data (NoData: None, else the page whose response it holds) and
\* showing_dates (their number).
NoData == -1
NewInstance ==
    [auth_token |-> FALSE, films_cache |-> {}, showings_data |-> NoData,
     showing_dates |-> 0]

--------------------------------------------------------------------------
(* RioScraper (src/scrapers/rio.py)                                        *)

\* A page as the characters that matter to _extract_events_json: the
\* marker (one element), braces, the double quote, and "a" for a run of
\* any other characters.
Marker == "var Events"
PageChars == {"{", "}", "\"", "a"}

\* str.find: the first index from `from` on where c stands, 0 if nowhere
Find(page, c, from) ==
    LET at == {i \in DOMAIN page : i >= from /\ page[i] = c}
    IN  IF at = {} THEN 0 ELSE CHOOSE i \in at : \A j \in at : i <= j

\* where a JSON object that opens at index i closes, braces inside
\* string values not counted; 0 if the text ends first
RECURSIVE ObjectEnd(_, _, _, _)
ObjectEnd(text, i, depth, in_string) ==
    IF i > Len(text) THEN 0
    ELSE IF in_string THEN ObjectEnd(text, i + 1, depth, text[i] # "\"")
    ELSE IF text[i] = "\"" THEN ObjectEnd(text, i + 1, depth, TRUE)
    ELSE IF text[i] = "{" THEN ObjectEnd(text, i + 1, depth + 1, FALSE)
    ELSE IF text[i] = "}"
         THEN IF depth = 1 THEN i ELSE ObjectEnd(text, i + 1, depth - 1, FALSE)
    ELSE ObjectEnd(text, i + 1, depth, FALSE)

\* None, as _extract_events_json returns it
NoObject == <<>>

\* json.loads: the object, written as its text, when the text is one JSON
\* object and nothing more; JSONDecodeError otherwise (here NoObject)
json_loads(text) ==
    IF text # <<>> /\ text[1] = "{" /\ ObjectEnd(text, 1, 0, FALSE) = Len(text)
    THEN text ELSE NoObject

\* the scan of _extract_events_json from index i on: end_idx, which stays
\* brace_idx if the depth never comes back to 0
RECURSIVE ScanBraces(_, _, _, _)
ScanBraces(page, i, depth, brace_idx) ==
    IF i > Len(page) THEN brace_idx
    ELSE IF page[i] = "{" THEN ScanBraces(page, i + 1, depth + 1, brace_idx)
    ELSE IF page[i] = "}"
         THEN IF depth - 1 = 0 THEN i + 1
              ELSE ScanBraces(page, i + 1, depth - 1, brace_idx)
    ELSE ScanBraces(page, i + 1, depth, brace_idx)

_extract_events_json(page_html) ==
    LET start_idx == Find(page_html, Marker, 1)
        brace_idx == Find(page_html, "{", start_idx)
        end_idx == ScanBraces(page_html, brace_idx, 0, brace_idx)
    IN  IF start_idx = 0 THEN NoObject
        ELSE IF brace_idx = 0 THEN NoObject
        ELSE json_loads(SubSeq(page_html, brace_idx, end_idx - 1))

\* _parse_event, for one performance of an event
RioParsePerformance(p, cutoff_date) ==
    IF ~p.open THEN <<>>
    ELSE IF p.when.kind = "none" THEN <<>>
    ELSE IF p.when.kind # "local" THEN <<>>      \* strptime raises, caught
    ELSE LET dt == Naive(p.when.t)
         IN  IF DtLess(cutoff_date, dt) THEN <<>>
             ELSE <<Screening(CinemaId("rio"), p.title, dt,
                              IF p.url # EmptyUrl THEN Abs(p.url.seg) ELSE p.alt)>>

RioScrape(up, self, t, zone, days_ahead) ==
    IF up.status = "down" THEN Raised(self)      \* client.get raises
    ELSE LET cutoff_date == PlusHours(datetime_now(t, zone), days_ahead * HoursPerDay)
             One(p) == RioParsePerformance(p, cutoff_date)
         IN  Returned(FlatMap(One, up.items), self)

--------------------------------------------------------------------------
(* CurzonScraper (src/scrapers/curzon.py)                                  *)

\* The film ids of the catalogue; a film's title is written as its id.
Catalog == {"A", "B"}
UnknownTitle(film_id) == IF film_id = "A" THEN "Unknown (A)" ELSE "Unknown (B)"

\* _get_auth_token: nothing when a token is held; otherwise the browser
\* session, whose responses may carry the bearer token and the film list
CurzonGetAuthToken(up, self) ==
    IF self.auth_token THEN self
    ELSE [self EXCEPT !.auth_token = up.token,
                      !.films_cache = IF up.browser_films THEN @ \cup Catalog ELSE @]

\* _fetch_films: nothing when the cache holds anything
CurzonFetchFilms(up, self) ==
    IF self.films_cache # {} THEN self
    ELSE IF up.api_films THEN [self EXCEPT !.films_cache = Catalog]
    ELSE self

\* the dates of scrape with the fixed range used whatever the site lists
CurzonDatesRangeOnly(up, t, days_ahead) ==
    [i \in 1..days_ahead |->
        DateOf(PlusHours(now_london(t), (i - 1) * HoursPerDay))]

\* the dates scrape asks showtimes for
CurzonDates(up, t, days_ahead) ==
    IF up.dates # <<>> THEN up.dates
    ELSE [i \in 1..days_ahead |->
             DateOf(PlusHours(now_london(t), (i - 1) * HoursPerDay))]

\* _fetch_showtimes, for one showtime of the response
CurzonParseShowtime(sh, films_cache) ==
    IF sh.when.kind = "none" THEN <<>>
    ELSE IF sh.when.kind \notin {"local", "utc"} THEN <<>>   \* fromisoformat raises, caught
    ELSE LET parsed == IF sh.when.kind = "utc" THEN Utc(sh.when.t) ELSE Naive(sh.when.t)
         IN  <<Screening(CinemaId("curzon"),
                         IF sh.title \in films_cache THEN sh.title
                                                     ELSE UnknownTitle(sh.title),
                         to_london(parsed),
                         IF sh.url # EmptyUrl THEN Abs(sh.url.seg) ELSE Website("curzon"))>>

CurzonFetchShowtimes(up, date, films_cache) ==
    IF date \in up.bad_pages THEN <<>>           \* the request fails for this date
    ELSE LET One(sh) == CurzonParseShowtime(sh, films_cache)
             OnDate(sh) == sh.page = date
         IN  FlatMap(One, SelectSeq(up.items, OnDate))

\* the requests of a scrape that goes on to the API without a token
CurzonRequestsWithoutToken(up, self, t, days_ahead) ==
    LET s1 == CurzonGetAuthToken(up, self)
    IN  (IF self.auth_token THEN <<>> ELSE <<"browser">>)
        \o (IF s1.films_cache # {} THEN <<>> ELSE <<"films">>)
        \o <<"film-screening-dates">>
        \o [i \in DOMAIN CurzonDates(up, t, days_ahead) |-> "showtimes"]

\* what one scrape call asks of the outside, in order: the browser session
\* of _get_auth_token, then the API requests of _fetch_films,
\* _get_screening_dates and _fetch_showtimes (one for each date)
CurzonRequests(up, self, t, days_ahead) ==
    LET browser == IF self.auth_token THEN <<>> ELSE <<"browser">>
        s1 == CurzonGetAuthToken(up, self)
    IN  IF ~self.auth_token /\ up.status = "down" THEN browser
        ELSE IF ~s1.auth_token THEN browser
        ELSE browser
             \o (IF s1.films_cache # {} THEN <<>> ELSE <<"films">>)
             \o <<"film-screening-dates">>
             \o [i \in DOMAIN CurzonDates(up, t, days_ahead) |-> "showtimes"]

\* the dates of the showtimes requests of one scrape call, in order
CurzonShowtimesRequested(up, self, t, days_ahead) ==
    IF ~self.auth_token /\ up.status = "down" THEN <<>>
    ELSE IF ~CurzonGetAuthToken(up, self).auth_token THEN <<>>
    ELSE CurzonDates(up, t, days_ahead)

CurzonScrape(up, self, t, zone, days_ahead) ==
    IF ~self.auth_token /\ up.status = "down" THEN Raised(self)  \* the browser fails
    ELSE LET s1 == CurzonGetAuthToken(up, self)
         IN  IF ~s1.auth_token THEN Returned(<<>>, s1)
             ELSE LET s2 == CurzonFetchFilms(up, s1)
                      One(date) == CurzonFetchShowtimes(up, date, s2.films_cache)
                  IN  Returned(FlatMap(One, CurzonDates(up, t, days_ahead)), s2)

--------------------------------------------------------------------------
(* PrinceCharlesScraper (src/scrapers/prince_charles.py)                   *)

\* a heading or a time "t hours into a year": its month, day and hour
HeadMonth(t) == MonthOfDay(t \div HoursPerDay)
HeadDay(t) == DayOfMonth(t \div HoursPerDay)
HeadHour(t) == t % HoursPerDay

\* _parse_date_heading moving every earlier month to the next year
PCCParseDateHeadingByMonth(t, current_year, current_month) ==
    LET m == HeadMonth(t)
        y == IF m < current_month THEN current_year + 1 ELSE current_year
    IN  Naive(MkDay(y, m, HeadDay(t)) * HoursPerDay)

\* _parse_date_heading: midnight of the date named, as a naive datetime
PCCParseDateHeading(t, current_year, current_month) ==
    LET m == HeadMonth(t)
        y == IF m < current_month - 1 THEN current_year + 1 ELSE current_year
    IN  Naive(MkDay(y, m, HeadDay(t)) * HoursPerDay)

NoDate == [wall |-> -1, tz |-> "none", fold |-> 0]

\* _parse_performances with a heading that does not parse leaving
\* current_date as it was
RECURSIVE PCCWalkKeepDate(_, _, _, _, _)
PCCWalkKeepDate(elems, current_date, block, current_year, current_month) ==
    IF elems = <<>> THEN <<>>
    ELSE LET e == Head(elems)
             date == IF e.page = block THEN current_date ELSE NoDate
         IN  IF e.when.kind = "head"
             THEN PCCWalkKeepDate(Tail(elems),
                          PCCParseDateHeading(e.when.t, current_year, current_month),
                          e.page, current_year, current_month)
             ELSE IF e.when.kind = "badhead"
             THEN PCCWalkKeepDate(Tail(elems), date, e.page, current_year, current_month)
             ELSE (IF date = NoDate \/ e.when.kind # "time" THEN <<>>
                   ELSE <<Screening(CinemaId("prince_charles"), e.title,
                                    to_london(Naive(date.wall + e.when.t)),
                                    IF e.url # EmptyUrl THEN e.url
                                    ELSE Website("prince_charles"))>>)
                  \o PCCWalkKeepDate(Tail(elems), date, e.page, current_year, current_month)

\* _parse_performances: the walk over a film's list, elements in document
\* order; current_date starts as None in every film block
RECURSIVE PCCWalk(_, _, _, _, _)
PCCWalk(elems, current_date, block, current_year, current_month) ==
    IF elems = <<>> THEN <<>>
    ELSE LET e == Head(elems)
             date == IF e.page = block THEN current_date ELSE NoDate
         IN  IF e.when.kind = "head"
             THEN PCCWalk(Tail(elems),
                          PCCParseDateHeading(e.when.t, current_year, current_month),
                          e.page, current_year, current_month)
             ELSE IF e.when.kind = "badhead"
             THEN PCCWalk(Tail(elems), NoDate, e.page, current_year, current_month)
             ELSE (IF date = NoDate \/ e.when.kind # "time" THEN <<>>
                   ELSE <<Screening(CinemaId("prince_charles"), e.title,
                                    to_london(Naive(date.wall + e.when.t)),
                                    IF e.url # EmptyUrl THEN e.url
                                    ELSE Website("prince_charles"))>>)
                  \o PCCWalk(Tail(elems), date, e.page, current_year, current_month)

StartLess(a, b) == DtLess(a.start_time, b.start_time)

\* _parse_whatson_page
PCCParseWhatsOn(up, t) ==
    LET london == now_london(t)
    IN  StableSort(StartLess,
                   PCCWalk(up.items, NoDate, -1, YearOfDay(DateOf(london)),
                           MonthOfDay(DateOf(london))))

PCCScrape(up, self, t, zone, days_ahead) ==
    IF up.status = "down" THEN Returned(<<>>, self)   \* caught inside scrape
    ELSE LET cutoff == AtMidnight(now_london(t))
             cutoff_end == PlusHours(cutoff, days_ahead * HoursPerDay)
             InRange(s) == ~DtLess(s.start_time, cutoff) /\ DtLess(s.start_time, cutoff_end)
             all == PCCParseWhatsOn(up, t)
         IN  Returned(IF days_ahead # 0 THEN SelectSeq(all, InRange) ELSE all, self)

--------------------------------------------------------------------------
(* BarbicanScraper (src/scrapers/barbican.py)                              *)

\* datetime.fromisoformat(text.replace('Z', '')) then to_london
BarbicanParse(when) == to_london(Naive(when.t))

BarbicanParses(when) == when.kind \in {"local", "utc"}

\* the instances the site lists for an event, and the event's
\* firstInstanceDateTime / lastInstanceDateTime
BarbicanInstances(up, name) ==
    LET Mine(i) == i.title = name IN SelectSeq(up.items, Mine)
BarbicanTimes(up, name) ==
    {i.when : i \in {j \in Range(BarbicanInstances(up, name)) : BarbicanParses(j.when)}}

\* _fetch_cinema_events: is the event kept
BarbicanKeepEvent(up, name, start_date, end_date) ==
    LET times == BarbicanTimes(up, name)
    IN  /\ times # {}
        /\ LET first == CHOOSE w \in times : \A x \in times : w.t <= x.t
               last == CHOOSE w \in times : \A x \in times : x.t <= w.t
           IN  /\ ~DtLess(BarbicanParse(last), start_date)
               /\ ~DtLess(end_date, BarbicanParse(first))

\* _fetch_event_instances, for one instance
BarbicanParseInstance(i, t, cutoff) ==
    IF ~i.open THEN <<>>
    ELSE IF i.when.kind = "none" THEN <<>>
    ELSE IF ~BarbicanParses(i.when) THEN <<>>     \* ValueError, caught
    ELSE LET start_time == BarbicanParse(i.when)
         IN  IF DtLess(start_time, now_london(t)) THEN <<>>
             ELSE IF DtLess(cutoff, start_time) THEN <<>>
             ELSE <<Screening(CinemaId("barbican"), i.title, start_time, Abs(i.title))>>

BarbicanScrape(up, self, t, zone, days_ahead) ==
    IF up.status = "down" THEN Returned(<<>>, self)   \* caught in _fetch_cinema_events
    ELSE LET london == now_london(t)
             cutoff == PlusHours(london, days_ahead * HoursPerDay)
             Name(i) == i.title
             Kept(i) == BarbicanKeepEvent(up, i.title, london, cutoff)
             events == SelectSeq(DedupBy(Name, up.items), Kept)
             OneInstance(i) == BarbicanParseInstance(i, t, cutoff)
             OneEvent(e) == FlatMap(OneInstance, BarbicanInstances(up, e.title))
         IN  Returned(FlatMap(OneEvent, events), self)

--------------------------------------------------------------------------
(* GardenScraper (src/scrapers/garden.py)                                  *)

\* _parse_date moving every earlier month to the next year
GardenParseDateByMonth(t, current_year, today) ==
    IF HeadMonth(t) < MonthOfDay(today)
    THEN MkDay(current_year + 1, HeadMonth(t), HeadDay(t))
    ELSE MkDay(current_year, HeadMonth(t), HeadDay(t))

\* _parse_date for a heading that parses: the date it names, as a day number
GardenParseDate(t, current_year, today) ==
    LET result == MkDay(current_year, HeadMonth(t), HeadDay(t))
    IN  IF result < today - 1
        THEN MkDay(current_year + 1, HeadMonth(t), HeadDay(t))
        ELSE result

\* the date of the block a link stands in: "md" has a heading that parses,
\* "time" one that does not (so _parse_date answers today)
GardenBlockDate(when, current_year, today) ==
    IF when.kind = "md" THEN GardenParseDate(when.t, current_year, today) ELSE today

\* scrape's loop and _parse_film_block, for one time link
GardenParseLink(l, t, days_ahead) ==
    LET london == now_london(t)
        cutoff_date == PlusHours(london, days_ahead * HoursPerDay)
        screening_date == GardenBlockDate(l.when, YearOfDay(DateOf(london)), DateOf(london))
    IN  IF l.when.kind \notin {"md", "time"} THEN <<>>   \* no heading, or no time in the text
        ELSE IF screening_date > DateOf(cutoff_date) THEN <<>>
        ELSE IF ~l.open THEN <<>>                       \* "sold out"
        ELSE <<Screening(CinemaId("garden"), l.title,
                         to_london(Naive(screening_date * HoursPerDay + HeadHour(l.when.t))),
                         l.url)>>

BookingUrlKey(s) == s.booking_url

GardenScrape(up, self, t, zone, days_ahead) ==
    IF up.status = "down" THEN Raised(self)      \* client.get raises
    ELSE LET One(l) == GardenParseLink(l, t, days_ahead)
         IN  Returned(DedupBy(BookingUrlKey, FlatMap(One, up.items)), self)

--------------------------------------------------------------------------
(* EverymanScraper (src/scrapers/everyman.py)                              *)

\* the views of the venue page
TodayView == 0
TomorrowView == 1
WeekView == 2

\* _extract_showtimes, for one purchase link of the view shown
EverymanParseLink(l, date) ==
    IF l.title = "" THEN <<>>
    ELSE IF l.when.kind # "time" THEN <<>>
    ELSE <<Screening(CinemaId("everyman"), l.title,
                     Naive(date * HoursPerDay + l.when.t),
                     IF l.url # EmptyUrl THEN l.url ELSE Website("everyman"))>>

\* _extract_showtimes_with_dates dating every link today
EverymanParseWeekLinkToday(l, t, zone) ==
    IF l.when.kind # "time" THEN <<>>
    ELSE EverymanParseLink(l, DateOf(datetime_now(t, zone)))

\* _extract_showtimes_with_dates, for one purchase link
EverymanParseWeekLink(l, t, zone) ==
    LET today == DateOf(datetime_now(t, zone))
        test_time == Naive(today * HoursPerDay + l.when.t)
        screening_date == IF DtLess(test_time, datetime_now(t, zone))
                          THEN today + 1 ELSE today
    IN  IF l.when.kind # "time" THEN <<>> ELSE EverymanParseLink(l, screening_date)

EverymanScrape(up, self, t, zone, days_ahead) ==
    IF up.status = "down" THEN Raised(self)      \* the browser fails
    ELSE LET today == DateOf(datetime_now(t, zone))
             In(view) == LET Shown(l) == l.page = view IN SelectSeq(up.items, Shown)
             Today(l) == EverymanParseLink(l, today)
             Tomorrow(l) == EverymanParseLink(l, today + 1)
             Week(l) == EverymanParseWeekLink(l, t, zone)
             all_screenings_ ==
                 FlatMap(Today, In(TodayView))
                 \o (IF up.has_tomorrow THEN FlatMap(Tomorrow, In(TomorrowView)) ELSE <<>>)
                 \o (IF up.has_week THEN FlatMap(Week, In(WeekView)) ELSE <<>>)
         IN  Returned(DedupBy(BookingUrlKey, all_screenings_), self)

--------------------------------------------------------------------------
(* VueScraper (src/scrapers/vue.py)                                        *)

\* _parse_showings, for one session of a films response
VueParseSession(x) ==
    IF x.title = "" THEN <<>>
    ELSE IF x.when.kind = "none" THEN <<>>
    ELSE IF x.when.kind \notin {"local", "utc"} THEN <<>>    \* fromisoformat raises, caught
    ELSE LET parsed == IF x.when.kind = "utc" THEN Utc(x.when.t) ELSE Naive(x.when.t)
         IN  <<Screening(CinemaId("vue"), x.title, to_london(parsed),
                         IF x.url # EmptyUrl THEN Abs(x.url.seg) ELSE Website("vue"))>>

\* _parse_showings of the films response held for `page`
VueParseShowings(up, page) ==
    LET OnPage(x) == x.page = page IN FlatMap(VueParseSession, SelectSeq(up.items, OnPage))

\* the page load: handle_response stores what the page's requests return
VueAfterLoad(up, self) ==
    [self EXCEPT !.showings_data = IF up.first THEN 0 ELSE @,
                 !.showing_dates = IF up.ndates > 0 THEN up.ndates ELSE @]

\* the loop over showing_dates[1:min(days_ahead, len)], from index k on:
\* the list collected and showings_data as the last visit leaves it
RECURSIVE VueDates(_, _, _, _)
VueDates(up, k, last, data) ==
    IF k > last THEN [list |-> <<>>, data |-> data]
    ELSE LET got == IF k \in up.bad_pages THEN NoData ELSE k
             rest == VueDates(up, k + 1, last, got)
         IN  [list |-> (IF got = NoData THEN <<>> ELSE VueParseShowings(up, got)) \o rest.list,
              data |-> rest.data]

Min(a, b) == IF a < b THEN a ELSE b

\* the session id: the last path segment of booking_url
VueSessionKey(s) == s.booking_url.seg

\* all_screenings of scrape before the deduplication: today's showings and
\* those of the dates visited, and the instance as the visits leave it
VueCollected(up, self, days_ahead) ==
    LET s1 == VueAfterLoad(up, self)
        today == IF s1.showings_data # NoData
                 THEN VueParseShowings(up, s1.showings_data) ELSE <<>>
        more == IF s1.showing_dates > 1
                THEN VueDates(up, 1, Min(days_ahead, s1.showing_dates) - 1,
                              s1.showings_data)
                ELSE [list |-> <<>>, data |-> s1.showings_data]
    IN  [list |-> today \o more.list, self |-> [s1 EXCEPT !.showings_data = more.data]]

VueScrape(up, self, t, zone, days_ahead) ==
    IF up.status = "down" THEN Raised(self)      \* the browser fails
    ELSE LET all == VueCollected(up, self, days_ahead)
         IN  Returned(DedupBy(VueSessionKey, all.list), all.self)

--------------------------------------------------------------------------
(* scraper.scrape(days_ahead), by adapter                                  *)

Scrape(a, up, self, t, zone, days_ahead) ==
    CASE a = "rio" -> RioScrape(up, self, t, zone, days_ahead)
      [] a = "curzon" -> CurzonScrape(up, self, t, zone, days_ahead)
      [] a = "prince_charles" -> PCCScrape(up, self, t, zone, days_ahead)
      [] a = "barbican" -> BarbicanScrape(up, self, t, zone, days_ahead)
      [] a = "garden" -> GardenScrape(up, self, t, zone, days_ahead)
      [] a = "everyman" -> EverymanScrape(up, self, t, zone, days_ahead)
      [] OTHER -> VueScrape(up, self, t, zone, days_ahead)

--------------------------------------------------------------------------
(* What the sites may serve: the inputs the adapters are run on.           *)

\* the most listings one site serves
MaxItems == 2

\* the instants the clock may show: 2025-10-25T23:00Z, which is midnight of
\* 26 October in London, two hours before summer time ends, and
\* 2025-12-30T10:00Z
NowChoices == {297 * HoursPerDay + 23, 363 * HoursPerDay + 10}
ServerZones == {"UTC", "London"}
DaysChoices == {1, 3}

\* what every site answers with by default; the adapter-specific fields are
\*   token, browser_films, api_films, dates   (Curzon: the browser session
\*       shows a bearer token / the film list, GET /films answers, the
\*       business dates of film-screening-dates)
\*   bad_pages   (Curzon, Vue: the dates whose request fails)
\*   has_tomorrow, has_week   (Everyman: the buttons the page has)
\*   first, ndates   (Vue: the first page load shows a films response,
\*       and the number of showingDates it shows, 0 when it shows none)
Site(items) ==
    [status |-> "ok", items |-> items, token |-> TRUE, browser_films |-> FALSE,
     api_films |-> TRUE, dates |-> <<>>, bad_pages |-> {}, has_tomorrow |-> TRUE,
     has_week |-> TRUE, first |-> TRUE, ndates |-> 3]

SeqsUpTo(S, n) == UNION {[1..k -> S] : k \in 0..n}

LondonDate(t) == DateOf(now_london(t))
\* "t hours into a year" for the London date of instant t plus d days, h o'clock
IntoYear(t, d, h) == DayOfYear(LondonDate(t) + d) * HoursPerDay + h

RioPool(t) ==
    {Item("A", When("local", t + d), u, al, 0, TRUE) :
        d \in {-30, 1, 30, 80}, u \in {Rel("p1"), EmptyUrl}, al \in {Abs("film"), EmptyUrl}}
    \cup {Item("B", w, Rel("p2"), Rel("film"), 0, TRUE) :
            w \in {When("utc", t + 1), When("bad", 0), When("none", 0)}}
    \cup {Item("B", When("local", t + 1), Rel("p2"), Rel("film"), 0, FALSE)}

CurzonPool(t) ==
    {Item(ti, When("utc", t + d), u, EmptyUrl, LondonDate(t) + pg, TRUE) :
        ti \in {"A", "B"}, d \in {1, 2, 80}, u \in {Rel("s1"), EmptyUrl}, pg \in {0, 1}}
    \cup {Item("A", w, Rel("s2"), EmptyUrl, LondonDate(t), TRUE) :
            w \in {When("local", t + 30), When("bad", 0), When("none", 0)}}

PCCPool(t) ==
    {Item(IF pg = 0 THEN "A" ELSE "B", w, u, EmptyUrl, pg, TRUE) :
        pg \in {0, 1},
        w \in {When("head", IntoYear(t, 0, 0)), When("head", IntoYear(t, 1, 0)),
               When("head", IntoYear(t, 70, 0)), When("badhead", 0)},
        u \in {EmptyUrl}}
    \cup {Item(IF pg = 0 THEN "A" ELSE "B", When("time", 20), u, EmptyUrl, pg, TRUE) :
            pg \in {0, 1}, u \in {EmptyUrl, Rel("book1"), Abs("book1")}}
    \cup {Item("A", w, Abs("book2"), EmptyUrl, 0, TRUE) :
            w \in {When("time", 1), When("bad", 0)}}

BarbicanPool(t) ==
    {Item(ti, w, EmptyUrl, EmptyUrl, 0, TRUE) :
        ti \in {"A", "B"},
        w \in {When("local", t - 30), When("local", t + 2), When("utc", t + 2),
               When("local", t + 30), When("local", t + 80), When("bad", 0),
               When("none", 0)}}
    \cup {Item("A", When("local", t + 2), EmptyUrl, EmptyUrl, 0, FALSE)}

GardenPool(t) ==
    {Item("A", w, Rel("g1"), EmptyUrl, 0, TRUE) :
        w \in {When("md", IntoYear(t, 0, 20)), When("md", IntoYear(t, 1, 1)),
               When("md", IntoYear(t, -2, 20)), When("md", IntoYear(t, 5, 20)),
               When("time", 20), When("bad", 0), When("none", 0)}}
    \cup {Item(ti, When("md", IntoYear(t, 0, 20)), u, EmptyUrl, 0, TRUE) :
            ti \in {"A", "B"}, u \in {Rel("g1"), Abs("g1"), Abs("g2")}}
    \cup {Item("B", When("md", IntoYear(t, 0, 20)), Abs("g2"), EmptyUrl, 0, FALSE)}

EverymanPool(t) ==
    {Item("A", w, u, EmptyUrl, view, TRUE) :
        view \in {TodayView, TomorrowView, WeekView},
        w \in {When("time", 1), When("time", 20), When("bad", 0)},
        u \in {Abs("e1"), Abs("e2")}}
    \cup {Item(ti, When("time", 20), Abs("e1"), EmptyUrl, TodayView, TRUE) : ti \in {"B", ""}}

VuePool(t) ==
    {Item("A", w, u, EmptyUrl, pg, TRUE) :
        pg \in {0, 1, 2}, w \in {When("local", t + 1), When("utc", t + 2)},
        u \in {Rel("v1"), EmptyUrl}}
    \cup {Item("B", When("local", t + 30), u, EmptyUrl, pg, TRUE) :
            pg \in {1, 2}, u \in {Rel("v2"), EmptyUrl}}
    \cup {Item(ti, w, Rel("v1"), EmptyUrl, 0, TRUE) :
            ti \in {"A"}, w \in {When("bad", 0), When("none", 0)}}
    \cup {Item("", When("local", t + 1), Rel("v1"), EmptyUrl, 0, TRUE)}

Pool(a, t) ==
    CASE a = "rio" -> RioPool(t)
      [] a = "curzon" -> CurzonPool(t)
      [] a = "prince_charles" -> PCCPool(t)
      [] a = "barbican" -> BarbicanPool(t)
      [] a = "garden" -> GardenPool(t)
      [] a = "everyman" -> EverymanPool(t)
      [] OTHER -> VuePool(t)

\* the ways a site may differ from Site(items), by adapter
Variants(a, t, up) ==
    {up, [up EXCEPT !.status = "down"]}
    \cup CASE a = "curzon" ->
                {[up EXCEPT !.token = FALSE], [up EXCEPT !.browser_films = TRUE],
                 [up EXCEPT !.api_films = FALSE],
                 [up EXCEPT !.token = FALSE, !.browser_films = TRUE],
                 [up EXCEPT !.dates = <<LondonDate(t), LondonDate(t) + 1>>],
                 [up EXCEPT !.dates = <<LondonDate(t), LondonDate(t) + 1>>, !.bad_pages = {LondonDate(t)}]}
            [] a = "everyman" ->
                {[up EXCEPT !.has_tomorrow = FALSE], [up EXCEPT !.has_week = FALSE]}
            [] a = "vue" ->
                {[up EXCEPT !.first = FALSE], [up EXCEPT !.ndates = 0],
                 [up EXCEPT !.ndates = 1], [up EXCEPT !.bad_pages = {1}],
                 [up EXCEPT !.first = FALSE, !.bad_pages = {2}]}
            [] OTHER -> {}

\* how many elements the performance lists of a Prince Charles page have
MaxListItems == 4

\* the elements of such lists: headings for today and tomorrow, a heading
\* that does not parse, and times in film A's list and in film B's
PCCListPool(t) ==
    {Item("A", w, EmptyUrl, EmptyUrl, 0, TRUE) :
        w \in {When("head", IntoYear(t, 0, 0)), When("head", IntoYear(t, 1, 0)),
               When("badhead", 0), When("time", 20), When("time", 21)}}
    \cup {Item("B", When("time", 20), EmptyUrl, EmptyUrl, 1, TRUE)}

PCCLists(t) ==
    {Site(items) : items \in UNION {[1..k -> PCCListPool(t)] : k \in 3..MaxListItems}}

Upstreams(a, t) ==
    UNION {Variants(a, t, Site(items)) : items \in SeqsUpTo(Pool(a, t), MaxItems)}
    \cup (IF a = "prince_charles" THEN PCCLists(t) ELSE {})

--------------------------------------------------------------------------
(* The adapters on their own: scrape called on one adapter instance, once  *)
(* and again, against a site that does not change and a clock that shows   *)
(* the same hour.                                                          *)

MaxCalls == 2

NoSite == Site(<<>>)
NoProbe == [adapter |-> "none", days_ahead |-> 0]
\* JSON null / Python None where an isoformat string may stand
Null == [text |-> 0, suffix |-> "null"]
NoQuery == [cinema |-> "", date |-> Null]
NoResp == [endpoint |-> "none", status |-> 0, read |-> "nothing", query |-> NoQuery,
           screenings |-> <<>>, total |-> 0, generated_at |-> Null]
NoFile == [exists |-> FALSE, text |-> "none", screenings |-> <<>>,
           generated_at |-> Null, total_screenings |-> 0, cinemas |-> 0,
           stats |-> <<>>]
NotRun == [status |-> "pending", list |-> <<>>]

InitScrape ==
    /\ now \in NowChoices
    /\ server_tz \in ServerZones
    /\ probe \in [adapter : Adapters, days_ahead : DaysChoices]
    /\ \E up \in Upstreams(probe.adapter, now) :
          upstream = [a \in {probe.adapter} |-> up]
    /\ inst = [a \in {probe.adapter} |-> NewInstance]
    /\ calls = <<>>
    /\ pc = "idle"
    /\ idx = 0
    /\ all_screenings = <<>>
    /\ stats = <<>>
    /\ outcome = [a \in Adapters |-> NotRun]
    /\ output = <<>>
    /\ file = NoFile
    /\ resp = NoResp

\* await scraper.scrape(days_ahead) on the adapter under test
ScrapeCall(a) ==
    /\ probe.adapter = a
    /\ Len(calls) < MaxCalls
    /\ LET r == Scrape(a, upstream[a], inst[a], now, server_tz, probe.days_ahead)
           asked == IF a = "curzon"
                    THEN CurzonRequests(upstream[a], inst[a], now, probe.days_ahead)
                    ELSE <<>>
           dates == IF a = "curzon"
                    THEN CurzonShowtimesRequested(upstream[a], inst[a], now,
                                                  probe.days_ahead)
                    ELSE <<>>
       IN  /\ calls' = Append(calls, [raised |-> r.raised, list |-> r.list,
                                      curzon_requests |-> asked,
                                      curzon_dates |-> dates])
           /\ inst' = [inst EXCEPT ![a] = r.self]
    /\ UNCHANGED <<now, server_tz, upstream, pc, idx, all_screenings, stats, outcome,
                   output, file, resp, probe>>

NextScrape == \E a \in Adapters : ScrapeCall(a)

SpecScrape == InitScrape /\ [][NextScrape]_vars

--------------------------------------------------------------------------
(* The aggregator (src/scripts/generate_screenings.py).                    *)

SCRAPERS ==
    << [name |-> "Rio Cinema", key |-> "rio"],
       [name |-> "Curzon Hoxton", key |-> "curzon"],
       [name |-> "Prince Charles Cinema", key |-> "prince_charles"],
       [name |-> "Barbican Cinema", key |-> "barbican"],
       [name |-> "Garden Cinema", key |-> "garden"],
       [name |-> "Everyman Broadgate", key |-> "everyman"],
       [name |-> "Vue Islington", key |-> "vue"] >>

\* run_scraper's default days_ahead
DAYS_AHEAD == 14

\* run_scraper with the try/except taken away: the exception reaches main
run_scraper_unguarded(r) == [raised |-> r.raised, screenings |-> r.list]

\* run_scraper: the try/except around scraper.scrape; r is what the scrape
\* did.  Nothing is raised to main.
run_scraper(r) ==
    IF r.raised THEN [raised |-> FALSE, screenings |-> <<>>]
    ELSE [raised |-> FALSE, screenings |-> r.list]

\* asdict(s) with start_time written without its offset
SerializeWallOnly(s) ==
    [s EXCEPT !.start_time = [text |-> s.start_time.wall, suffix |-> ""]]

\* asdict(s) with start_time replaced by its isoformat()
Serialize(s) == [s EXCEPT !.start_time = isoformat(s.start_time)]

SerializeAll(list) == [i \in DOMAIN list |-> Serialize(list[i])]

\* output.sort(key=lambda x: x['start_time']): the keys are strings
KeyLess(a, b) == StrLess(a.start_time, b.start_time)
SortOutput(out) == StableSort(KeyLess, out)

\* the data dict with total_screenings counting the venues, not the screenings
SnapshotDataCountingCinemas(out, st, t, zone) ==
    [exists |-> TRUE, text |-> "complete", screenings |-> out,
     generated_at |-> isoformat(datetime_now(t, zone)),
     total_screenings |-> Len(SCRAPERS), cinemas |-> Len(SCRAPERS), stats |-> st]

\* the data dict of main, as the complete text of the file
SnapshotData(out, st, t, zone) ==
    [exists |-> TRUE, text |-> "complete", screenings |-> out,
     generated_at |-> isoformat(datetime_now(t, zone)),
     total_screenings |-> Len(out), cinemas |-> Len(SCRAPERS), stats |-> st]

\* the file just after open(output_path, 'w'), and after a flush of part of
\* the text
Truncated == [NoFile EXCEPT !.exists = TRUE, !.text = "empty"]
PartlyWritten == [NoFile EXCEPT !.exists = TRUE, !.text = "partial"]

\* the most times Rio's site lists one performance
MaxRepeats == 2

\* What the sites serve on the day of an aggregator run: nothing, or one
\* listing an hour or more from now (Rio's possibly several times, Curzon's
\* possibly under two business dates), or no answer at all.
AggItem(a, t) ==
    CASE a = "rio" -> Item("A", When("local", now_london(t).wall + 1), Rel("p1"), Abs("film"), 0, TRUE)
      [] a = "curzon" -> Item("A", When("utc", t + 1), Rel("s1"), EmptyUrl, LondonDate(t), TRUE)
      [] a = "prince_charles" -> Item("A", When("time", 20), Abs("book1"), EmptyUrl, 0, TRUE)
      [] a = "barbican" -> Item("A", When("local", now_london(t).wall + 1), EmptyUrl, EmptyUrl, 0, TRUE)
      [] a = "garden" -> Item("A", When("md", IntoYear(t, 0, 20)), Abs("g1"), EmptyUrl, 0, TRUE)
      [] a = "everyman" -> Item("A", When("time", 20), Abs("e1"), EmptyUrl, TodayView, TRUE)
      [] OTHER -> Item("A", When("utc", t + 2), Rel("v1"), EmptyUrl, 0, TRUE)

AggSites(a, t) ==
    {Site(<<>>), [Site(<<>>) EXCEPT !.status = "down"]}
    \cup CASE a = "prince_charles" ->
                {Site(<<Item("A", When("head", IntoYear(t, 1, 0)), EmptyUrl, EmptyUrl, 0, TRUE),
                        AggItem(a, t)>>)}
           [] a = "rio" ->
                {Site([i \in 1..k |-> AggItem(a, t)]) : k \in 1..MaxRepeats}
           [] a = "curzon" ->
                {Site(<<AggItem(a, t)>>),
                 Site(<<AggItem(a, t), [AggItem(a, t) EXCEPT !.page = LondonDate(t) + 1]>>)}
           [] OTHER -> {Site(<<AggItem(a, t)>>)}

\* main before its first statement: a fresh process, every adapter instance
\* as its constructor left it; the data directory holds no snapshot yet or
\* the one of an earlier run
PreviousSnapshot(t, zone) ==
    SnapshotData(<<>>, [e \in {SCRAPERS[i].name : i \in DOMAIN SCRAPERS} |-> 0],
                 t - HoursPerDay, zone)

Init ==
    /\ now \in NowChoices
    /\ server_tz \in ServerZones
    /\ upstream = <<>>
    /\ inst = [a \in Adapters |-> NewInstance]
    /\ pc = "scrape"
    /\ idx = 1
    /\ all_screenings = <<>>
    /\ stats = <<>>
    /\ outcome = [a \in Adapters |-> NotRun]
    /\ output = <<>>
    /\ file \in {NoFile, PreviousSnapshot(now, server_tz)}
    /\ resp = NoResp
    /\ calls = <<>>
    /\ probe = NoProbe

\* the loop of main starting every run_scraper without awaiting it
ScheduleRunScraper == "scrape"

\* main, line 65: the loop awaits run_scraper before its next turn
AwaitRunScraper == "await"

\* a turn of the loop of main begins: run_scraper calls the scrape of the
\* next adapter of SCRAPERS with days_ahead
StartScraper ==
    /\ pc = "scrape"
    /\ Len(calls) < Len(SCRAPERS)
    /\ LET a == SCRAPERS[Len(calls) + 1].key
       IN  /\ calls' = Append(calls, [adapter |-> a, days_ahead |-> DAYS_AHEAD])
           /\ outcome' = [outcome EXCEPT ![a] = [status |-> "running", list |-> <<>>]]
    /\ pc' = AwaitRunScraper
    /\ UNCHANGED <<now, server_tz, upstream, idx, all_screenings, stats, output,
                   file, resp, inst, probe>>

\* the turn ends: the scrape of SCRAPERS[idx], against whatever that
\* venue's site serves today, returns or raises, and main records it
RunScraper ==
    /\ pc = "await"
    /\ idx \in DOMAIN SCRAPERS
    /\ LET name == SCRAPERS[idx].name
           a == SCRAPERS[idx].key
       IN  \E up \in AggSites(a, now) :
             LET r == Scrape(a, up, inst[a], now, server_tz, DAYS_AHEAD)
                 res == run_scraper(r)
             IN  /\ inst' = [inst EXCEPT ![a] = r.self]
                 /\ outcome' = [outcome EXCEPT ![a] =
                        [status |-> IF r.raised THEN "raised" ELSE "returned",
                         list |-> r.list]]
                 /\ IF res.raised
                    THEN /\ pc' = "raised"
                         /\ UNCHANGED <<idx, stats, all_screenings>>
                    ELSE /\ stats' = [n \in DOMAIN stats \cup {name} |->
                                        IF n = name THEN Len(res.screenings) ELSE stats[n]]
                         /\ all_screenings' = all_screenings \o res.screenings
                         /\ idx' = idx + 1
                         /\ pc' = IF idx = Len(SCRAPERS) THEN "serialize" ELSE "scrape"
    /\ UNCHANGED <<now, server_tz, upstream, output, file, resp, calls, probe>>

\* main, lines 69-80: serialize and sort
SerializeOutput ==
    /\ pc = "serialize"
    /\ output' = SortOutput(SerializeAll(all_screenings))
    /\ pc' = "open"
    /\ UNCHANGED <<now, server_tz, upstream, idx, all_screenings, stats, outcome,
                   file, resp, inst, calls, probe>>

\* open(output_path, 'w'): the file is created or cut to nothing
OpenSnapshot ==
    /\ pc = "open"
    /\ file' = Truncated
    /\ pc' = "dump"
    /\ UNCHANGED <<now, server_tz, upstream, idx, all_screenings, stats, outcome,
                   output, resp, inst, calls, probe>>

\* json.dump(data, f, indent=2) writes the text piece by piece; when the
\* pieces outgrow the buffer the first part of the text goes to the file
DumpChunk ==
    /\ pc = "dump"
    /\ output # <<>>
    /\ file.text = "empty"
    /\ file' = PartlyWritten
    /\ UNCHANGED <<now, server_tz, upstream, pc, idx, all_screenings, stats,
                   outcome, output, resp, inst, calls, probe>>

\* leaving the with block: the rest of the text is flushed, the file closed
CloseSnapshot ==
    /\ pc = "dump"
    /\ file' = SnapshotData(output, stats, now, server_tz)
    /\ pc' = "done"
    /\ UNCHANGED <<now, server_tz, upstream, idx, all_screenings, stats, outcome,
                   output, resp, inst, calls, probe>>

Next ==
    \/ StartScraper
    \/ RunScraper
    \/ SerializeOutput
    \/ OpenSnapshot
    \/ DumpChunk
    \/ CloseSnapshot

Spec == Init /\ [][Next]_vars

\* A run in which every scrape called comes to an end and main, whenever
\* it can take a step, takes one
Fairness == WF_vars(Next)

SpecFair == Init /\ [][Next]_vars /\ Fairness

--------------------------------------------------------------------------
(* The query API (src/api/index.py), reading the snapshot while the        *)
(* aggregator writes it.                                                   *)

\* a date query "YYYY-MM-DD" naming day d
DateText(d) == [text |-> d, suffix |-> "date"]

\* load_screenings with no except clause: a missing file raises as well
load_screenings_uncaught(f) ==
    IF f.exists /\ f.text = "complete"
    THEN [raised |-> FALSE, screenings |-> f.screenings,
          generated_at |-> f.generated_at, total_screenings |-> f.total_screenings]
    ELSE [raised |-> TRUE, screenings |-> <<>>, generated_at |-> Null,
          total_screenings |-> 0]

\* load_screenings: open and json.load; only FileNotFoundError is caught.
\* A file that is not one complete JSON text makes json.load raise.
load_screenings(f) ==
    IF ~f.exists
    THEN [raised |-> FALSE, screenings |-> <<>>, generated_at |-> Null,
          total_screenings |-> 0]
    ELSE IF f.text = "complete"
    THEN [raised |-> FALSE, screenings |-> f.screenings,
          generated_at |-> f.generated_at, total_screenings |-> f.total_screenings]
    ELSE [raised |-> TRUE, screenings |-> <<>>, generated_at |-> Null,
          total_screenings |-> 0]

\* a date match on the UTC date of the instant
StartsWithUtcDate(start_time, date) ==
    (start_time.text - (IF start_time.suffix = "+01:00" THEN 1 ELSE 0)) \div HoursPerDay
        = date.text

\* s.get('start_time', '').startswith(date)
StartsWith(start_time, date) == start_time.text \div HoursPerDay = date.text

\* what open(data_path).read() finds
ReadOf(f) == IF f.exists THEN f.text ELSE "missing"

\* get_screenings with the date filter applied to the unfiltered list
get_screenings_date_over_all(f, cinema, date) ==
    LET data == load_screenings(f)
        by_date == IF date # Null
                   THEN SelectSeq(data.screenings, LAMBDA s : StartsWith(s.start_time, date))
                   ELSE IF cinema # ""
                   THEN SelectSeq(data.screenings, LAMBDA s : s.cinema_id = cinema)
                   ELSE data.screenings
        query == [cinema |-> cinema, date |-> date]
    IN  IF data.raised
        THEN [endpoint |-> "screenings", status |-> 500, read |-> ReadOf(f),
              query |-> query, screenings |-> <<>>, total |-> 0,
              generated_at |-> Null]
        ELSE [endpoint |-> "screenings", status |-> 200, read |-> ReadOf(f),
              query |-> query, screenings |-> by_date, total |-> Len(by_date),
              generated_at |-> data.generated_at]

\* get_screenings(cinema, date): "" and Null stand for a filter not given
\* (None and the empty string are both falsy).  An exception out of the
\* handler is answered with status 500.
get_screenings(f, cinema, date) ==
    LET data == load_screenings(f)
        by_cinema == IF cinema # ""
                     THEN SelectSeq(data.screenings, LAMBDA s : s.cinema_id = cinema)
                     ELSE data.screenings
        by_date == IF date # Null
                   THEN SelectSeq(by_cinema, LAMBDA s : StartsWith(s.start_time, date))
                   ELSE by_cinema
        query == [cinema |-> cinema, date |-> date]
    IN  IF data.raised
        THEN [endpoint |-> "screenings", status |-> 500, read |-> ReadOf(f),
              query |-> query, screenings |-> <<>>, total |-> 0,
              generated_at |-> Null]
        ELSE [endpoint |-> "screenings", status |-> 200, read |-> ReadOf(f),
              query |-> query, screenings |-> by_date, total |-> Len(by_date),
              generated_at |-> data.generated_at]

\* get_today_screenings: the date of the server's local clock
get_today_screenings(f, cinema, t, zone) ==
    [get_screenings(f, cinema, DateText(DateOf(datetime_now(t, zone))))
        EXCEPT !.endpoint = "today"]

\* the cinema and date filters asked for
CinemaQueries == {"", "rio", "curzon-hoxton", "odeon"}
DateQueries(t) == {Null, DateText(LondonDate(t)), DateText(LondonDate(t) + 1)}

GetScreenings ==
    /\ \E cinema \in CinemaQueries, date \in DateQueries(now) :
          resp' = get_screenings(file, cinema, date)
    /\ UNCHANGED <<now, server_tz, upstream, pc, idx, all_screenings, stats,
                   outcome, output, file, inst, calls, probe>>

GetTodayScreenings ==
    /\ \E cinema \in CinemaQueries :
          resp' = get_today_screenings(file, cinema, now, server_tz)
    /\ UNCHANGED <<now, server_tz, upstream, pc, idx, all_screenings, stats,
                   outcome, output, file, inst, calls, probe>>

\* The aggregator as its loop leaves it, on a day when only the venues of
\* ApiVenues have anything to list.  Rio and Curzon may also list showings
\* at the first and the last hour of today and the first hour of tomorrow
\* (London dates).
\* CINEMAS: the ids of the venue descriptors the API holds
CINEMAS ==
    {"rio", "curzon-hoxton", "prince-charles-cinema", "barbican-cinema", "garden-cinema"}

\* list_cinemas (/api/cinemas): the ids of the descriptors returned
list_cinemas == CINEMAS

ApiVenues == {"rio", "curzon", "vue"}
DayEdgeWalls(t) ==
    <<LondonDate(t) * HoursPerDay, LondonDate(t) * HoursPerDay + HoursPerDay - 1,
      (LondonDate(t) + 1) * HoursPerDay>>
DayEdgeSite(a, t) ==
    Site([i \in 1..3 |->
            LET w == DayEdgeWalls(t)[i]
            IN  IF a = "rio"
                THEN Item("A", When("local", w), Rel("p1"), Abs("film"), 0, TRUE)
                ELSE Item("A", When("utc", w - LocalOffset(w, 0)), Rel("s1"), EmptyUrl,
                          w \div HoursPerDay, TRUE)])
ApiSites(a, t) ==
    AggSites(a, t) \cup (IF a \in {"rio", "curzon"} THEN {DayEdgeSite(a, t)} ELSE {})
SiteChoices(t) ==
    {[a \in Adapters |-> CASE a = "rio" -> r [] a = "curzon" -> c
                           [] a = "vue" -> v [] OTHER -> Site(<<>>)] :
        r \in ApiSites("rio", t), c \in ApiSites("curzon", t), v \in ApiSites("vue", t)}

InitApi ==
    /\ now \in NowChoices
    /\ server_tz \in ServerZones
    /\ upstream = <<>>
    /\ \E sites \in SiteChoices(now) :
         LET run(a) == Scrape(a, sites[a], NewInstance, now, server_tz, DAYS_AHEAD)
             got(a) == run_scraper(run(a)).screenings
         IN  /\ inst = [a \in Adapters |-> run(a).self]
             /\ outcome = [a \in Adapters |->
                    [status |-> IF run(a).raised THEN "raised" ELSE "returned",
                     list |-> run(a).list]]
             /\ stats = [n \in {SCRAPERS[i].name : i \in DOMAIN SCRAPERS} |->
                    Len(got(SCRAPERS[CHOOSE i \in DOMAIN SCRAPERS : SCRAPERS[i].name = n].key))]
             /\ all_screenings = FlatMap(LAMBDA e : got(e.key), SCRAPERS)
    /\ pc = "serialize"
    /\ idx = Len(SCRAPERS) + 1
    /\ output = <<>>
    /\ file \in {NoFile, PreviousSnapshot(now, server_tz)}
    /\ resp = NoResp
    /\ calls = <<>>
    /\ probe = NoProbe

NextApi ==
    \/ SerializeOutput
    \/ OpenSnapshot
    \/ DumpChunk
    \/ CloseSnapshot
    \/ GetScreenings
    \/ GetTodayScreenings

SpecApi == InitApi /\ [][NextApi]_vars

--------------------------------------------------------------------------
(* The pure functions, applied to inputs one after another.                *)

\* how many hours before and after each clock change the inputs reach
EdgeSpan == 12

EdgeHours ==
    UNION {(b - EdgeSpan)..(b + EdgeSpan) :
              b \in {BSTStart2025, BSTEnd2025, BSTStart2026, BSTEnd2026}}

\* the datetimes to_london is applied to: naive ones, UTC ones, and London
\* ones of either fold
ToLondonInputs ==
    {Naive(w) : w \in EdgeHours} \cup {Utc(w) : w \in EdgeHours}
    \cup {[wall |-> w, tz |-> "london", fold |-> f] : w \in EdgeHours, f \in {0, 1}}

NoPure == [fn |-> "none", arg |-> Naive(0), out |-> Naive(0), again |-> Naive(0)]

InitPure ==
    /\ now \in NowChoices
    /\ server_tz \in ServerZones
    /\ upstream = <<>>
    /\ inst = [a \in Adapters |-> NewInstance]
    /\ pc = "idle"
    /\ idx = 0
    /\ all_screenings = <<>>
    /\ stats = <<>>
    /\ outcome = [a \in Adapters |-> NotRun]
    /\ output = <<>>
    /\ file = NoFile
    /\ resp = NoResp
    /\ calls = <<>>
    /\ probe = NoPure

\* how many characters a page has after the marker
MaxPage == 6

\* the pages _extract_events_json is given: the marker, then any characters
Pages == {<<Marker>> \o body : body \in SeqsUpTo(PageChars, MaxPage)}

\* _extract_events_json(page)
ApplyExtractEventsJson ==
    /\ probe.fn = "none"
    /\ \E page \in Pages :
          probe' = [fn |-> "_extract_events_json", arg |-> page,
                    out |-> _extract_events_json(page), again |-> NoObject]
    /\ UNCHANGED <<now, server_tz, upstream, pc, idx, all_screenings, stats,
                   outcome, output, file, resp, inst, calls>>

\* the current London dates the date headings are read on: 1 January,
\* 1 March, 15 June, 15 December and 31 December
RolloverTodays ==
    {MkDay(BaseYear, 1, 1), MkDay(BaseYear, 3, 1), MkDay(BaseYear, 6, 15),
     MkDay(BaseYear, 12, 15), MkDay(BaseYear, 12, 31)}

\* the date headings: every day of a year, as hours into the year
Headings == {d * HoursPerDay : d \in 0..(DaysPerYear - 1)}

\* GardenScraper._parse_date(heading, current_year) on the London date today
ApplyGardenParseDate ==
    /\ probe.fn = "none"
    /\ \E t \in Headings, today \in RolloverTodays :
          probe' = [fn |-> "GardenParseDate", arg |-> [heading |-> t, today |-> today],
                    out |-> GardenParseDate(t, YearOfDay(today), today), again |-> 0]
    /\ UNCHANGED <<now, server_tz, upstream, pc, idx, all_screenings, stats,
                   outcome, output, file, resp, inst, calls>>

\* PrinceCharlesScraper._parse_date_heading(heading, current_year, current_month)
ApplyPCCParseDateHeading ==
    /\ probe.fn = "none"
    /\ \E t \in Headings, current_month \in 1..12 :
          probe' = [fn |-> "PCCParseDateHeading",
                    arg |-> [heading |-> t, current_month |-> current_month],
                    out |-> PCCParseDateHeading(t, BaseYear, current_month), again |-> 0]
    /\ UNCHANGED <<now, server_tz, upstream, pc, idx, all_screenings, stats,
                   outcome, output, file, resp, inst, calls>>

\* to_london(d), and to_london of what it returned
ApplyToLondon ==
    /\ probe.fn = "none"
    /\ \E d \in ToLondonInputs :
          probe' = [fn |-> "to_london", arg |-> d, out |-> to_london(d),
                    again |-> to_london(to_london(d))]
    /\ UNCHANGED <<now, server_tz, upstream, pc, idx, all_screenings, stats,
                   outcome, output, file, resp, inst, calls>>

NextPure ==
    \/ ApplyToLondon
    \/ ApplyExtractEventsJson
    \/ ApplyGardenParseDate
    \/ ApplyPCCParseDateHeading

SpecPure == InitPure /\ [][NextPure]_vars

--------------------------------------------------------------------------
(* Properties.                                                             *)

Occurrences(x, s) == Cardinality({i \in DOMAIN s : s[i] = x})

\* how often x stands in what the first k adapters of SCRAPERS returned
RECURSIVE ReturnedOccurrences(_, _)
ReturnedOccurrences(x, k) ==
    IF k = 0 THEN 0
    ELSE LET o == outcome[SCRAPERS[k].key]
         IN  ReturnedOccurrences(x, k - 1)
             + (IF o.status = "returned" THEN Occurrences(x, SerializeAll(o.list)) ELSE 0)

RECURSIVE SumStats(_, _)
SumStats(st, k) == IF k = 0 THEN 0 ELSE SumStats(st, k - 1) + st[SCRAPERS[k].name]

AllReturned ==
    UNION {Range(SerializeAll(outcome[a].list)) : a \in Adapters}

\* C1: whichever adapters raise, the run of the aggregator does not raise,
\* every adapter of the registry is invoked, and the snapshot written holds
\* exactly the screenings the other adapters returned (each as often as it
\* was returned), with 0 in stats for every adapter that raised.
C1_PartialFailureIsolation ==
    /\ pc # "raised"
    /\ pc \notin {"scrape", "await"} =>
          \A a \in Adapters : outcome[a].status \notin {"pending", "running"}
    /\ pc = "done" =>
         /\ \A x \in AllReturned \cup Range(file.screenings) :
               Occurrences(x, file.screenings) = ReturnedOccurrences(x, Len(SCRAPERS))
         /\ \A i \in DOMAIN SCRAPERS :
               outcome[SCRAPERS[i].key].status = "raised" => file.stats[SCRAPERS[i].name] = 0

\* a finished run in which Rio's scrape and Garden's raised and Vue, run
\* last, returned a screening that is in the snapshot
C1_Witness ==
    /\ pc = "done"
    /\ outcome["rio"].status = "raised"
    /\ outcome["garden"].status = "raised"
    /\ outcome["vue"].list # <<>>
    /\ \E i \in DOMAIN file.screenings : file.screenings[i].cinema_id = CinemaId("vue")

\* C2: in the snapshot a run has written, total_screenings is the length of
\* screenings and the sum of the stats values, and every adapter's stats
\* entry is the number of screenings it returned, 0 if it raised.
C2_CountConsistency ==
    pc = "done" =>
        /\ file.total_screenings = Len(file.screenings)
        /\ file.total_screenings = SumStats(file.stats, Len(SCRAPERS))
        /\ \A i \in DOMAIN SCRAPERS :
              LET o == outcome[SCRAPERS[i].key]
              IN  file.stats[SCRAPERS[i].name] =
                     IF o.status = "returned" THEN Len(o.list) ELSE 0

\* a finished run where one adapter returned two screenings, one raised and
\* one returned none
C2_Witness ==
    /\ pc = "done"
    /\ Len(outcome["rio"].list) = 2
    /\ outcome["curzon"].status = "raised"
    /\ outcome["prince_charles"].status = "returned"
    /\ outcome["prince_charles"].list = <<>>
    /\ file.total_screenings = 2

\* the instant an isoformat text with an offset names
TextInstant(x) == x.text - (IF x.suffix = "+01:00" THEN 1 ELSE 0)

\* C3: the screenings of the snapshot are in ascending order of start_time:
\* of two adjacent entries that carry an offset, the earlier one's instant
\* is not later than the next one's.
C3_SortedByInstant ==
    pc = "done" =>
        \A i \in 1..(Len(file.screenings) - 1) :
            LET x == file.screenings[i].start_time
                y == file.screenings[i + 1].start_time
            IN  (x.suffix # "" /\ y.suffix # "") => TextInstant(x) <= TextInstant(y)

\* C4: load_screenings, run at any point of the aggregator's write, never
\* reads an empty or partly written file: it finds no file or a complete
\* snapshot.
C4_ReaderSeesCompleteSnapshot ==
    resp.read \in {"nothing", "missing", "complete"}

\* every screening a scrape call on the adapter under test handed back
Shown == UNION {Range(calls[i].list) : i \in DOMAIN calls}

\* C5: every screening an adapter's scrape returns has a timezone-aware
\* start_time, in Europe/London; none is naive.
C5_StartTimeAware ==
    \A s \in Shown : s.start_time.tz = "london"

\* C6: every screening an adapter's scrape returns has a non-empty, absolute
\* booking_url.
C6_BookingUrlAbsolute ==
    \A s \in Shown : s.booking_url.abs /\ s.booking_url.seg # ""

\* C7: every screening scrape(days_ahead) returns starts no earlier than the
\* beginning of the current day in London and no later than days_ahead days
\* after the current London time.
C7_RollingWindow ==
    \A s \in Shown :
        /\ s.start_time.wall >= AtMidnight(now_london(now)).wall
        /\ s.start_time.wall <= now_london(now).wall + probe.days_ahead * HoursPerDay

Ids(l) == {ScreeningId(s) : s \in Range(l)}

\* C8: two scrape calls on one adapter instance, against a site and a clock
\* that have not changed, give the same set of screening ids.
C8_ScrapeIdempotent ==
    (Len(calls) = 2 /\ ~calls[1].raised /\ ~calls[2].raised) =>
        Ids(calls[1].list) = Ids(calls[2].list)

\* Screening.id of a serialized screening
SerializedId(d) == <<d.cinema_id, d.film_title, d.start_time>>

\* C9: the snapshot a run has written holds no two screenings with the same
\* id, that is with the same cinema_id, film_title and start_time.
C9_NoDuplicateIds ==
    pc = "done" =>
        \A i, j \in DOMAIN file.screenings :
            i # j => SerializedId(file.screenings[i]) # SerializedId(file.screenings[j])

\* C10: when there is no snapshot file, get_screenings, whatever the cinema
\* and date filters, answers without error with an empty screenings list,
\* total 0 and generated_at null.
C10_MissingSnapshot ==
    resp.read = "missing" =>
        /\ resp.status = 200
        /\ resp.screenings = <<>>
        /\ resp.total = 0
        /\ resp.generated_at = Null

\* a request with both filters given, answered while no snapshot exists
C10_Witness ==
    /\ resp.read = "missing"
    /\ resp.query.cinema = "rio"
    /\ resp.query.date = DateText(LondonDate(now))
    /\ resp.status = 200

\* C11: when the snapshot file exists but is not one complete JSON text
\* (empty or cut short), get_screenings still answers the request, with an
\* empty result and generated_at null.
C11_CorruptSnapshotTolerated ==
    resp.read \in {"empty", "partial"} =>
        /\ resp.status = 200
        /\ resp.screenings = <<>>
        /\ resp.total = 0
        /\ resp.generated_at = Null

\* the screenings of a snapshot that pass every filter given
Matching(snapshot, cinema, date) ==
    SelectSeq(snapshot,
              LAMBDA s : /\ (cinema # "" => s.cinema_id = cinema)
                         /\ (date # Null => StartsWith(s.start_time, date)))

\* C12: every answer get_screenings gives from a snapshot holds exactly the
\* snapshot's screenings that pass all the filters given (an omitted filter
\* excludes nothing), in snapshot order, and total is the length of that
\* list.
C12_FilterComposition ==
    [][(resp' # resp /\ resp'.status = 200) =>
          /\ resp'.screenings =
                Matching(load_screenings(file).screenings, resp'.query.cinema,
                         resp'.query.date)
          /\ resp'.total = Len(resp'.screenings)]_vars

\* an answer to a request with both filters, from a snapshot of which the
\* cinema filter drops a screening and the date filter drops another
C12_Witness ==
    /\ resp.status = 200
    /\ resp.read = "complete"
    /\ file.text = "complete"
    /\ resp.generated_at = file.generated_at
    /\ resp.query.cinema = "rio"
    /\ resp.query.date = DateText(LondonDate(now))
    /\ Len(resp.screenings) = 2
    /\ \E i \in DOMAIN file.screenings : file.screenings[i].cinema_id # "rio"
    /\ \E i \in DOMAIN file.screenings :
          /\ file.screenings[i].cinema_id = "rio"
          /\ ~StartsWith(file.screenings[i].start_time, resp.query.date)

\* the London calendar date of a stored start_time: a text with an offset
\* names an instant, a text without one a London wall-clock reading
LondonDateOfText(x) ==
    IF x.suffix = "" THEN x.text \div HoursPerDay
    ELSE DateOf(AsLondon(Utc(TextInstant(x))))

\* C13: get_screenings(date=D) returns a screening of the snapshot if and
\* only if the London calendar date of its start_time is D, whichever way
\* the start_time is stored (with +00:00, with +01:00, without offset).
C13_DateFilterLondonDate ==
    [][(resp' # resp /\ resp'.status = 200 /\ resp'.query.cinema = ""
            /\ resp'.query.date # Null) =>
          LET snapshot == load_screenings(file).screenings
          IN  \A i \in DOMAIN snapshot :
                 (snapshot[i] \in Range(resp'.screenings))
                    <=> (LondonDateOfText(snapshot[i].start_time) = resp'.query.date.text)]_vars

\* an answer for today's date from a snapshot holding Curzon and Rio
\* showings at the first and last hour of today, which are returned, and at
\* the first hour of tomorrow, which are not
C13_Witness ==
    LET today == LondonDate(now)
        At(l, w, aware) == \E i \in DOMAIN l :
                              l[i].start_time.text = w /\ (l[i].start_time.suffix # "") = aware
    IN  /\ resp.status = 200
        /\ resp.query = [cinema |-> "", date |-> DateText(today)]
        /\ file.text = "complete"
        /\ resp.generated_at = file.generated_at
        /\ \A aware \in BOOLEAN :
              /\ At(resp.screenings, today * HoursPerDay, aware)
              /\ At(resp.screenings, today * HoursPerDay + HoursPerDay - 1, aware)
              /\ At(file.screenings, (today + 1) * HoursPerDay, aware)
              /\ ~At(resp.screenings, (today + 1) * HoursPerDay, aware)

\* C14: whatever the server's own zone, get_today_screenings answers as
\* get_screenings does for the current calendar date in Europe/London.
C14_TodayIsLondonDate ==
    [][(resp' # resp /\ resp'.endpoint = "today") =>
          LET london == get_screenings(file, resp'.query.cinema, DateText(LondonDate(now)))
          IN  /\ resp'.status = london.status
              /\ resp'.screenings = london.screenings
              /\ resp'.total = london.total
              /\ resp'.generated_at = london.generated_at]_vars

\* what identifies a Screening as the adapter made it, and a record read
\* back from the API: cinema, title, wall-clock fields and UTC offset
Original(s) ==
    [cinema_id |-> s.cinema_id, film_title |-> s.film_title,
     wall |-> s.start_time.wall, aware |-> IsAware(s.start_time),
     offset |-> utcoffset(s.start_time)]
ReadBack(d) ==
    [cinema_id |-> d.cinema_id, film_title |-> d.film_title,
     wall |-> d.start_time.text, aware |-> d.start_time.suffix # "",
     offset |-> IF d.start_time.suffix = "+01:00" THEN 1 ELSE 0]

\* an answer without filters, read from the snapshot this run has written
ReadNewSnapshot ==
    /\ resp.status = 200
    /\ resp.read = "complete"
    /\ resp.query = NoQuery
    /\ resp.generated_at = isoformat(datetime_now(now, server_tz))

\* C15: the screenings a run serialized, read back through get_screenings
\* without filters, are one record per original with the same cinema_id,
\* film_title and start_time; none is lost, added or altered.
C15_SnapshotRoundTrip ==
    ReadNewSnapshot =>
        LET originals == [i \in DOMAIN all_screenings |-> Original(all_screenings[i])]
            read == [i \in DOMAIN resp.screenings |-> ReadBack(resp.screenings[i])]
        IN  /\ Len(read) = Len(originals)
            /\ \A x \in Range(originals) \cup Range(read) :
                  Occurrences(x, read) = Occurrences(x, originals)

\* such an answer holding start_times stored with +01:00, with +00:00 and
\* without offset
C15_Witness ==
    /\ ReadNewSnapshot
    /\ \A suffix \in {"", "+00:00", "+01:00"} :
          \E i \in DOMAIN resp.screenings : resp.screenings[i].start_time.suffix = suffix

\* British Summer Time as London's clocks show it: from 02:00 on the last
\* Sunday of March until the clocks first reach 02:00 on the last Sunday of
\* October
ClockInBST(w) ==
    \/ (BSTStart2025 + 1 <= w /\ w < BSTEnd2025 + 1)
    \/ (BSTStart2026 + 1 <= w /\ w < BSTEnd2026 + 1)

\* the hour London's clocks skip when summer time begins
SkippedHour(w) == w \in {BSTStart2025, BSTStart2026}

\* C16: to_london keeps a naive datetime's wall-clock fields and gives it
\* the London offset of that date (+01:00 in summer time, +00:00
\* otherwise); it returns an aware datetime as the same instant in London
\* time; and applied twice it gives what it gives applied once.
C16_ToLondonNormalizes ==
    probe.fn = "to_london" =>
        LET d == probe.arg
            o == probe.out
        IN  /\ o.tz = "london"
            /\ d.tz = "naive" =>
                  /\ o.wall = d.wall
                  /\ utcoffset(o) = (IF ClockInBST(d.wall) THEN 1 ELSE 0)
                  /\ ~SkippedHour(d.wall) => UtcOffsetAt(InstantOf(o)) = utcoffset(o)
            /\ IsAware(d) =>
                  /\ InstantOf(o) = InstantOf(d)
                  /\ d.tz = "utc" => utcoffset(o) = UtcOffsetAt(InstantOf(d))
            /\ probe.again = o

\* to_london applied to a naive summer reading, which gets +01:00, and to
\* a UTC datetime of the hour the clocks repeat
C16_Witness ==
    /\ probe.fn = "to_london"
    /\ \/ (probe.arg.tz = "naive" /\ utcoffset(probe.out) = 1
              /\ probe.arg.wall = BSTEnd2025)
       \/ (probe.arg.tz = "utc" /\ probe.out.fold = 1)

\* the adapters whose scrape has been called and has not yet ended
InProgress == {a \in Adapters : outcome[a].status = "running"}

\* C17: in a run of the aggregator the scrapes are called in the order of
\* the registry, each with days_ahead 14 and none twice; a scrape is called
\* only when every scrape called before it has returned or raised, so at
\* most one is in progress; and when the loop is over every adapter's
\* scrape has been called.
C17_SequentialAdapters ==
    /\ Len(calls) <= Len(SCRAPERS)
    /\ \A i \in DOMAIN calls :
          /\ calls[i].adapter = SCRAPERS[i].key
          /\ calls[i].days_ahead = 14
          /\ i < Len(calls) =>
                outcome[calls[i].adapter].status \in {"returned", "raised"}
    /\ \A i \in DOMAIN SCRAPERS :
          i > Len(calls) => outcome[SCRAPERS[i].key].status = "pending"
    /\ Cardinality(InProgress) <= 1
    /\ pc \notin {"scrape", "await"} =>
          (Len(calls) = Len(SCRAPERS) /\ InProgress = {})

\* Curzon's scrape in progress after Rio's has raised, nothing else begun
C17_Witness ==
    /\ pc = "await"
    /\ Len(calls) = 2
    /\ outcome["rio"].status = "raised"
    /\ InProgress = {"curzon"}
    /\ outcome["prince_charles"].status = "pending"

\* C18: when the site gives the browser session no bearer token, every
\* scrape call on CurzonScraper makes one browser session and no request to
\* the API, and, the browser session having ended, returns no screenings.
C18_CurzonAuthFailure ==
    (probe.adapter = "curzon" /\ ~upstream["curzon"].token) =>
        \A i \in DOMAIN calls :
            /\ calls[i].curzon_requests = <<"browser">>
            /\ upstream["curzon"].status = "ok" =>
                  (~calls[i].raised /\ calls[i].list = <<>>)

\* two scrape calls against a site that serves showtimes and films to the
\* browser but no token
C18_Witness ==
    /\ probe.adapter = "curzon"
    /\ ~upstream["curzon"].token
    /\ upstream["curzon"].status = "ok"
    /\ upstream["curzon"].browser_films
    /\ Len(upstream["curzon"].items) = 2
    /\ Len(calls) = 2
    /\ calls[2].list = <<>>

\* C19: what an adapter caches during a scrape call lasts for that call
\* only: whenever a scrape call may begin, the instance's auth_token,
\* films_cache, showings_data and showing_dates are as __init__ left them.
C19_CachesScopedToCall ==
    inst[probe.adapter] = NewInstance

\* is an item of a site's response well formed: its date and time strings
\* parse and no field the adapter requires is missing
WellFormed(a, x) ==
    CASE a = "rio" -> x.when.kind = "local"
      [] a = "curzon" -> x.when.kind \in {"local", "utc"}
      [] a = "barbican" -> x.when.kind \in {"local", "utc"}
      [] a = "garden" -> x.when.kind = "md"
      [] a = "everyman" -> x.when.kind = "time" /\ x.title # ""
      [] a = "vue" -> x.when.kind \in {"local", "utc"} /\ x.title # ""
      [] OTHER -> x.when.kind \in {"head", "time"}

\* the Prince Charles page without its malformed items: a date heading
\* that does not parse goes with the times listed under it
RECURSIVE PCCWellFormed(_, _, _)
PCCWellFormed(elems, dropping, block) ==
    IF elems = <<>> THEN <<>>
    ELSE LET e == Head(elems)
             under == dropping /\ e.page = block
         IN  IF e.when.kind = "badhead" THEN PCCWellFormed(Tail(elems), TRUE, e.page)
             ELSE IF e.when.kind = "head"
             THEN <<e>> \o PCCWellFormed(Tail(elems), FALSE, e.page)
             ELSE (IF under \/ ~WellFormed("prince_charles", e) THEN <<>> ELSE <<e>>)
                  \o PCCWellFormed(Tail(elems), under, e.page)

\* a site's response without its malformed items
WellFormedOnly(a, up) ==
    LET Good(x) == WellFormed(a, x)
    IN  [up EXCEPT !.items = IF a = "prince_charles" THEN PCCWellFormed(@, FALSE, -1)
                             ELSE SelectSeq(@, Good)]

\* C20: a scrape of a site that answers does not raise, whatever items of
\* the response are malformed and wherever they stand, and returns the
\* screenings it returns for the same response without the malformed items.
C20_MalformedItemsSkipped ==
    (Len(calls) >= 1 /\ upstream[probe.adapter].status = "ok") =>
        LET a == probe.adapter
            expected == Scrape(a, WellFormedOnly(a, upstream[a]), NewInstance, now,
                               server_tz, probe.days_ahead).list
        IN  /\ ~calls[1].raised
            /\ \A x \in Range(expected) \cup Range(calls[1].list) :
                  Occurrences(x, calls[1].list) = Occurrences(x, expected)

\* C21: every cinema_id in the snapshot a run of the aggregator has written
\* is the id of a Cinema descriptor that list_cinemas returns.
C21_CinemaIdListed ==
    pc = "done" =>
        \A i \in DOMAIN file.screenings : file.screenings[i].cinema_id \in list_cinemas

\* C22: a run of the aggregator in which every scrape returns or raises
\* comes to its end with the snapshot of that run written, whatever the
\* adapters did, and the file is written by that one write only: once the
\* run has finished the file stays as written.
C22_RunToCompletion ==
    /\ <>(pc = "done")
    /\ [](pc = "done" =>
            /\ file = SnapshotData(output, stats, now, server_tz)
            /\ \A a \in Adapters : outcome[a].status \in {"returned", "raised"})

\* a finished run in which one adapter raised, one returned nothing and one
\* returned screenings
C22_Witness ==
    /\ pc = "done"
    /\ file.text = "complete"
    /\ outcome["rio"].status = "raised"
    /\ outcome["curzon"].status = "returned" /\ outcome["curzon"].list = <<>>
    /\ outcome["garden"].status = "returned" /\ outcome["garden"].list # <<>>

\* C23: for a page that holds the marker, then a JSON object, then any
\* text, _extract_events_json returns that object: the text from the first
\* "{" after the marker to the brace that closes the object, braces inside
\* its string values being no part of the nesting.
C23_BraceBalanceExtraction ==
    probe.fn = "_extract_events_json" =>
        LET page == probe.arg
            first == Find(page, "{", Find(page, Marker, 1))
            last == IF first = 0 THEN 0 ELSE ObjectEnd(page, first, 0, FALSE)
        IN  last # 0 => probe.out = SubSeq(page, first, last)

\* C24 as stated: _parse_date gives the next calendar year whenever the
\* heading's month is earlier than the current month, and the current year
\* otherwise.
C24_GardenRolloverByMonth ==
    probe.fn = "GardenParseDate" =>
        (YearOfDay(probe.out) = YearOfDay(probe.arg.today) + 1
            <=> HeadMonth(probe.arg.heading) < MonthOfDay(probe.arg.today))

\* C24: _parse_date keeps the heading's month and day, and gives the next
\* calendar year whenever the heading's date of the current year lies more
\* than one day before the current London date, and the current year
\* otherwise.
C24_GardenRolloverByDay ==
    probe.fn = "GardenParseDate" =>
        LET heading == probe.arg.heading
            today == probe.arg.today
        IN  /\ MonthOfDay(probe.out) = HeadMonth(heading)
            /\ DayOfMonth(probe.out) = HeadDay(heading)
            /\ YearOfDay(probe.out) \in {YearOfDay(today), YearOfDay(today) + 1}
            /\ YearOfDay(probe.out) = YearOfDay(today) + 1
                  <=> heading \div HoursPerDay < DayOfYear(today) - 1

\* "1 December" read on 15 December, which goes to the next year, and
\* "28 February" read on 1 March, which stays in the current year
C24_Witness ==
    /\ probe.fn = "GardenParseDate"
    /\ \/ /\ probe.arg.today = MkDay(BaseYear, 12, 15)
          /\ probe.arg.heading = MkDay(BaseYear, 12, 1) * HoursPerDay
          /\ probe.out = MkDay(BaseYear + 1, 12, 1)
       \/ /\ probe.arg.today = MkDay(BaseYear, 3, 1)
          /\ probe.arg.heading = MkDay(BaseYear, 2, 28) * HoursPerDay
          /\ probe.out = MkDay(BaseYear, 2, 28)

\* the year of the date a naive datetime names
YearOfDt(dt) == YearOfDay(dt.wall \div HoursPerDay)

\* C25 as stated: _parse_date_heading gives the next calendar year whenever
\* the heading's month is earlier than the current month, one month
\* earlier included, and the current year otherwise.
C25_PCCRolloverByMonth ==
    probe.fn = "PCCParseDateHeading" =>
        (YearOfDt(probe.out) = BaseYear + 1
            <=> HeadMonth(probe.arg.heading) < probe.arg.current_month)

\* C25: _parse_date_heading keeps the heading's month and day, and gives
\* the next calendar year whenever the heading's month is two or more
\* months earlier than the current month; a heading of the month before the
\* current one, of the current month or of a later month gets the current
\* year.
C25_PCCRolloverTwoMonths ==
    probe.fn = "PCCParseDateHeading" =>
        LET heading == probe.arg.heading
            day == probe.out.wall \div HoursPerDay
        IN  /\ probe.out.tz = "naive"
            /\ probe.out.wall % HoursPerDay = 0
            /\ MonthOfDay(day) = HeadMonth(heading)
            /\ DayOfMonth(day) = HeadDay(heading)
            /\ YearOfDt(probe.out) \in {BaseYear, BaseYear + 1}
            /\ YearOfDt(probe.out) = BaseYear + 1
                  <=> HeadMonth(heading) + 2 <= probe.arg.current_month

\* a November heading read in December, which stays in the current year,
\* and a January heading read in December, which goes to the next
C25_Witness ==
    /\ probe.fn = "PCCParseDateHeading"
    /\ probe.arg.current_month = 12
    /\ \/ (HeadMonth(probe.arg.heading) = 11 /\ YearOfDt(probe.out) = BaseYear)
       \/ (HeadMonth(probe.arg.heading) = 1 /\ YearOfDt(probe.out) = BaseYear + 1)

\* the places of a kind of request among the requests of a call
RequestsOf(kind, requests) == {k \in DOMAIN requests : requests[k] = kind}

\* C26: a Curzon scrape that holds a token asks showtimes for the dates
\* the site lists, one request for each in the order listed, or, when the
\* site lists none, for the days_ahead London dates from today on in order;
\* it asks for the film catalogue at most once and before any showtimes;
\* and a date whose request fails does not keep the showtimes of the other
\* dates out of the result.
C26_CurzonDateIteration ==
    (probe.adapter = "curzon" /\ upstream["curzon"].token
        /\ upstream["curzon"].status = "ok") =>
        LET up == upstream["curzon"]
        IN  \A i \in DOMAIN calls :
               LET c == calls[i]
                   films == RequestsOf("films", c.curzon_requests)
                   showtimes == RequestsOf("showtimes", c.curzon_requests)
               IN  /\ ~c.raised
                   /\ c.curzon_dates =
                         IF up.dates # <<>> THEN up.dates
                         ELSE [k \in 1..probe.days_ahead |-> LondonDate(now) + k - 1]
                   /\ Cardinality(showtimes) = Len(c.curzon_dates)
                   /\ Cardinality(films) <= 1
                   /\ \A f \in films : \A sh \in showtimes : f < sh
                   /\ \A k \in DOMAIN up.items :
                         LET x == up.items[k]
                         IN  (/\ x.page \in Range(c.curzon_dates)
                              /\ x.page \notin up.bad_pages
                              /\ WellFormed("curzon", x))
                             => \E n \in DOMAIN c.list :
                                   InstantOf(c.list[n].start_time) =
                                      InstantOf(IF x.when.kind = "utc" THEN Utc(x.when.t)
                                                ELSE ReplaceTzLondon(Naive(x.when.t)))

\* a scrape of the two dates the site lists, the request for the first of
\* which fails, that returns a showtime of the second
C26_Witness ==
    /\ probe.adapter = "curzon"
    /\ upstream["curzon"].token
    /\ upstream["curzon"].status = "ok"
    /\ upstream["curzon"].bad_pages # {}
    /\ Len(calls) >= 1
    /\ calls[1].curzon_dates = <<LondonDate(now), LondonDate(now) + 1>>
    /\ calls[1].curzon_requests = <<"browser", "films", "film-screening-dates",
                                    "showtimes", "showtimes">>
    /\ calls[1].list # <<>>

\* the instant the `start` string of a Barbican instance names: with a
\* trailing Z an instant of UTC, without one a London wall-clock time
BarbicanStartInstant(when) ==
    IF when.kind = "utc" THEN when.t ELSE InstantOf(ReplaceTzLondon(Naive(when.t)))

\* C27: every screening BarbicanScraper returns has the start_time of an
\* instance of its film on the site: the same instant, in London time,
\* also when the instance's start is written as a UTC instant with Z.
C27_BarbicanInstantPreserved ==
    (probe.adapter = "barbican" /\ Len(calls) >= 1) =>
        \A n \in DOMAIN calls[1].list :
            LET s == calls[1].list[n]
                items == upstream["barbican"].items
            IN  /\ s.start_time.tz = "london"
                /\ \E k \in DOMAIN items :
                      /\ items[k].title = s.film_title
                      /\ BarbicanParses(items[k].when)
                      /\ BarbicanStartInstant(items[k].when) = InstantOf(s.start_time)

\* where the film's list that holds element k of a page begins
ListStart(items, k) ==
    CHOOSE r \in 1..k :
        /\ \A j \in r..k : items[j].page = items[k].page
        /\ r > 1 => items[r - 1].page # items[k].page

\* the headings that stand before element k in its film's list
HeadingsBefore(items, k) ==
    {j \in ListStart(items, k)..(k - 1) : items[j].when.kind \in {"head", "badhead"}}

NearestHeading(items, k) ==
    CHOOSE j \in HeadingsBefore(items, k) : \A h \in HeadingsBefore(items, k) : h <= j

\* the performances that have a date: those whose nearest heading parses
Dated(items) ==
    {k \in DOMAIN items :
        /\ items[k].when.kind = "time"
        /\ HeadingsBefore(items, k) # {}
        /\ items[NearestHeading(items, k)].when.kind = "head"}

\* the start_time of a dated performance: the date of its nearest heading
\* and its own time, in London
DatedStart(items, k, t) ==
    LET today == DateOf(now_london(t))
        date == PCCParseDateHeading(items[NearestHeading(items, k)].when.t,
                                    YearOfDay(today), MonthOfDay(today))
    IN  ReplaceTzLondon(Naive(date.wall + items[k].when.t))

\* C28: every screening PrinceCharlesScraper returns is a performance with
\* the date of the nearest heading before it in its film's list, and every
\* such performance inside the window is returned; a performance before
\* any heading of its list, or whose nearest heading does not parse, is not
\* returned under any date.
C28_PCCDateAttribution ==
    (probe.adapter = "prince_charles" /\ Len(calls) >= 1
        /\ upstream["prince_charles"].status = "ok") =>
        LET items == upstream["prince_charles"].items
            list == calls[1].list
            from == AtMidnight(now_london(now))
            until == PlusHours(from, probe.days_ahead * HoursPerDay)
            Is(s, k) == /\ s.film_title = items[k].title
                        /\ s.start_time = DatedStart(items, k, now)
        IN  /\ \A n \in DOMAIN list : \E k \in Dated(items) : Is(list[n], k)
            /\ \A k \in Dated(items) :
                  LET start == DatedStart(items, k, now)
                  IN  (~DtLess(start, from) /\ DtLess(start, until))
                         => \E n \in DOMAIN list : Is(list[n], k)
            /\ Len(list) <= Cardinality(Dated(items))

\* a list with today's heading, a time, a heading that does not parse and
\* another time: only the first time is returned
C28_Witness ==
    /\ probe.adapter = "prince_charles"
    /\ Len(calls) >= 1
    /\ LET items == upstream["prince_charles"].items
       IN  /\ Len(items) = 4
           /\ items[1].when = When("head", IntoYear(now, 0, 0))
           /\ items[2].when = When("time", 20)
           /\ items[3].when.kind = "badhead"
           /\ items[4].when = When("time", 21)
    /\ Len(calls[1].list) = 1
    /\ calls[1].list[1].start_time.wall = LondonDate(now) * HoursPerDay + 20

\* the showing a screening is of
Showing(s) == [film_title |-> s.film_title, start_time |-> s.start_time]

\* the site gives every showing a bookingUrl of its own: two sessions with
\* the same bookingUrl are one showing
SessionIdsOfOneShowing(collected) ==
    \A i, j \in DOMAIN collected :
        (/\ collected[i].booking_url = collected[j].booking_url
         /\ collected[i].booking_url # Website("vue"))
        => Showing(collected[i]) = Showing(collected[j])

\* C29: of the screenings VueScraper collects over the dates it visits,
\* every showing (film_title and start_time) is in the result of scrape,
\* the sessions without a bookingUrl, whose booking_url is the venue's
\* website, included; only repeats of a showing are dropped.
C29_VueDedupKeepsShowings ==
    (probe.adapter = "vue" /\ Len(calls) >= 1 /\ ~calls[1].raised) =>
        LET collected == VueCollected(upstream["vue"], NewInstance, probe.days_ahead).list
            result == calls[1].list
        IN  SessionIdsOfOneShowing(collected) =>
               \A i \in DOMAIN collected :
                   \E n \in DOMAIN result : Showing(result[n]) = Showing(collected[i])

\* the purchase links scrape reads, in the order it reads them: those of
\* the Today view, of the Tomorrow view if the page has one, of the
\* "Next 7 days" view if it has one
EverymanRead(up) ==
    {k \in DOMAIN up.items :
        /\ WellFormed("everyman", up.items[k])
        /\ \/ up.items[k].page = TodayView
           \/ (up.items[k].page = TomorrowView /\ up.has_tomorrow)
           \/ (up.items[k].page = WeekView /\ up.has_week)}

ReadBefore(up, j, k) ==
    \/ up.items[j].page < up.items[k].page
    \/ (up.items[j].page = up.items[k].page /\ j < k)

\* the links read that no link read before them has the URL of
EverymanFirst(up) ==
    {k \in EverymanRead(up) :
        ~\E j \in EverymanRead(up) :
            up.items[j].url = up.items[k].url /\ ReadBefore(up, j, k)}

\* the date of a link by the adapter's clock: the view's date, and in the
\* "Next 7 days" view today if the time has not passed, tomorrow if it has
EverymanDate(l, t, zone) ==
    LET clock == datetime_now(t, zone)
        today == DateOf(clock)
    IN  IF l.page = TodayView THEN today
        ELSE IF l.page = TomorrowView THEN today + 1
        ELSE IF today * HoursPerDay + l.when.t < clock.wall THEN today + 1
        ELSE today

====
